---- MODULE Spec2Model ----
(***************************************************************************)
(* CloudWatch filter expressions: the recursive-descent parser and the     *)
(* order-independent equivalence check of package cloudwatch_lep.          *)
(*                                                                         *)
(* A Go string is modelled as a sequence of one-character strings, so that *)
(* suffix tests, trimming and slicing are computed as the code computes    *)
(* them.  The text is ASCII: one byte is one rune.                         *)
(*                                                                         *)
(* An expression is a record of one fixed shape:                           *)
(*   kind = "simple"  : left, right, operator   (simpleExpression)         *)
(*   kind = "complex" : operator, expressions   (complexExpression)        *)
(*   kind = "nil"     : the nil interface value                            *)
(***************************************************************************)
EXTENDS Integers, Sequences, FiniteSets, TLC

VARIABLES pc, inA, inB, stA, stB, ret, frames

vars == <<pc, inA, inB, stA, stB, ret, frames>>

----------------------------------------------------------------------------
(* Operators and the data model                                            *)

loAnd == <<"&", "&">>

loOr == <<"|", "|">>

coEqual == <<"=">>

coNotEqual == <<"!", "=">>

coNotExists == <<"N", "O", "T", " ", "E", "X", "I", "S", "T", "S">>

listLogicalOperators == <<loAnd, loOr>>

\* a plausible slip: the equals operator is tried before the not-equals one
listComparisonOperatorEqualFirst == <<coNotExists, coEqual, coNotEqual>>

listComparisonOperator == <<coNotExists, coNotEqual, coEqual>>

\* the zero value of a Go string
EmptyStr == <<>>

\* the nil error
NoError == "nil"

ErrBrokenParenthesis == "broken parenthesis"

ErrMaxDepth == "max depth reached, can't parse this expression"

ErrAlternating == "not supported comparison with alternating logical operators"

ErrMultipleOperators == "got multiple comparison operators"

ErrMissingOperator == "could not find a operator for this expression"

simpleExpression(l, op, r) ==
    [kind |-> "simple", operator |-> op, left |-> l, right |-> r,
     expressions |-> <<>>]

complexExpression(op, exprs) ==
    [kind |-> "complex", operator |-> op, left |-> EmptyStr,
     right |-> EmptyStr, expressions |-> exprs]

NilExpression ==
    [kind |-> "nil", operator |-> EmptyStr, left |-> EmptyStr,
     right |-> EmptyStr, expressions |-> <<>>]

----------------------------------------------------------------------------
(* Equivalence                                                             *)

RECURSIVE isEquivalent(_, _)

\* a plausible slip: the operands are compared in the written order only
simpleIsEquivalentOrdered(s, o) ==
    IF o.kind # "simple" THEN FALSE
    ELSE IF o.operator # s.operator THEN FALSE
    ELSE IF o.left = s.left /\ o.right = s.right THEN TRUE
    ELSE FALSE

\* a plausible slip: the comparison operators are not compared
simpleIsEquivalentAnyOperator(s, o) ==
    IF o.kind # "simple" THEN FALSE
    ELSE IF o.left = s.left /\ o.right = s.right THEN TRUE
    ELSE IF o.left = s.right /\ o.right = s.left THEN TRUE
    ELSE FALSE

\* a plausible slip: a group with a single child is taken for that child
simpleIsEquivalentUnwrap(s, o) ==
    IF o.kind = "complex" /\ Len(o.expressions) = 1
    THEN isEquivalent(s, o.expressions[1])
    ELSE IF o.kind # "simple" THEN FALSE
    ELSE IF o.operator # s.operator THEN FALSE
    ELSE IF o.left = s.left /\ o.right = s.right THEN TRUE
    ELSE IF o.left = s.right /\ o.right = s.left THEN TRUE
    ELSE FALSE

\* a plausible slip: || for && in the first comparison of the operands
simpleIsEquivalentEitherOperand(s, o) ==
    IF o.kind # "simple" THEN FALSE
    ELSE IF o.operator # s.operator THEN FALSE
    ELSE IF o.left = s.left \/ o.right = s.right THEN TRUE
    ELSE IF o.left = s.right /\ o.right = s.left THEN TRUE
    ELSE FALSE

simpleIsEquivalent(s, o) ==
    IF o.kind # "simple" THEN FALSE
    ELSE IF o.operator # s.operator THEN FALSE
    ELSE IF o.left = s.left /\ o.right = s.right THEN TRUE
    ELSE IF o.left = s.right /\ o.right = s.left THEN TRUE
    ELSE FALSE

\* 0-based index of the first element of otherExpressions that exp is
\* equivalent to, -1 when there is none (found = idx >= 0)
RECURSIVE findFrom(_, _, _)
findFrom(exp, otherExpressions, i) ==
    IF i >= Len(otherExpressions) THEN -1
    ELSE IF isEquivalent(exp, otherExpressions[i + 1]) THEN i
    ELSE findFrom(exp, otherExpressions, i + 1)

findEquivalentPos(exp, otherExpressions) == findFrom(exp, otherExpressions, 0)

\* a plausible slip: the pool is truncated without moving the last element
\* into the freed slot
removeFoundNoSwap(otherExpressions, idx) ==
    SubSeq(otherExpressions, 1, Len(otherExpressions) - 1)

\* a plausible slip: the matched element stays in the pool
removeFoundKeep(otherExpressions, idx) == otherExpressions

\* otherExpressions[idx] = otherExpressions[len-1]; then drop the last slot
removeFound(otherExpressions, idx) ==
    LET n == Len(otherExpressions)
        swapped == [otherExpressions EXCEPT ![idx + 1] = otherExpressions[n]]
    IN SubSeq(swapped, 1, n - 1)

\* the range loop over c.expressions, k children already matched
RECURSIVE matchLoop(_, _, _)
matchLoop(expressions, k, otherExpressions) ==
    IF k >= Len(expressions) THEN TRUE
    ELSE LET idx == findEquivalentPos(expressions[k + 1], otherExpressions)
         IN IF idx >= 0
            THEN matchLoop(expressions, k + 1, removeFound(otherExpressions, idx))
            ELSE FALSE

\* a plausible slip: the numbers of children are not compared
complexIsEquivalentAnyLength(c, o) ==
    IF o.kind # "complex" THEN FALSE
    ELSE IF o.operator # c.operator THEN FALSE
    ELSE matchLoop(c.expressions, 0, o.expressions)

\* a plausible slip: the logical operators are not compared
complexIsEquivalentAnyOperator(c, o) ==
    IF o.kind # "complex" THEN FALSE
    ELSE IF Len(c.expressions) # Len(o.expressions) THEN FALSE
    ELSE matchLoop(c.expressions, 0, o.expressions)

complexIsEquivalent(c, o) ==
    IF o.kind # "complex" THEN FALSE
    ELSE IF o.operator # c.operator THEN FALSE
    ELSE IF Len(c.expressions) # Len(o.expressions) THEN FALSE
    ELSE matchLoop(c.expressions, 0, o.expressions)

\* dynamic dispatch on the receiver's type
isEquivalent(x, o) ==
    IF x.kind = "simple" THEN simpleIsEquivalent(x, o)
    ELSE complexIsEquivalent(x, o)

----------------------------------------------------------------------------
(* Package strings                                                         *)

\* the ASCII white space of unicode.IsSpace: space, \t, \n, \v, \f, \r
VerticalTab == ""

IsSpace(c) == c \in {" ", "\t", "\n", VerticalTab, "\f", "\r"}

HasSuffix(s, suffix) ==
    /\ Len(s) >= Len(suffix)
    /\ SubSeq(s, Len(s) - Len(suffix) + 1, Len(s)) = suffix

TrimSuffix(s, suffix) ==
    IF HasSuffix(s, suffix) THEN SubSeq(s, 1, Len(s) - Len(suffix)) ELSE s

RECURSIVE TrimLeftSpace(_)
TrimLeftSpace(s) ==
    IF Len(s) > 0 /\ IsSpace(s[1]) THEN TrimLeftSpace(Tail(s)) ELSE s

RECURSIVE TrimRightSpace(_)
TrimRightSpace(s) ==
    IF Len(s) > 0 /\ IsSpace(s[Len(s)])
    THEN TrimRightSpace(SubSeq(s, 1, Len(s) - 1)) ELSE s

\* a plausible slip: only the leading spaces are trimmed
TrimSpaceLeftOnly(s) == TrimLeftSpace(s)

TrimSpace(s) == TrimRightSpace(TrimLeftSpace(s))

\* strings.TrimLeft and strings.TrimRight with a cutset of one character
RECURSIVE TrimLeft(_, _)
TrimLeft(s, c) ==
    IF Len(s) > 0 /\ s[1] = c THEN TrimLeft(Tail(s), c) ELSE s

RECURSIVE TrimRight(_, _)
TrimRight(s, c) ==
    IF Len(s) > 0 /\ s[Len(s)] = c
    THEN TrimRight(SubSeq(s, 1, Len(s) - 1), c) ELSE s

\* strings.Count for a separator of one character
Count(s, c) == Cardinality({i \in 1..Len(s) : s[i] = c})

----------------------------------------------------------------------------
(* The parser                                                              *)

maxDepth == 5

\* a (expression, error) result
Ok(exp) == [exp |-> exp, err |-> NoError]

\* a plausible slip: the zero comparison is returned beside the error
FailZeroExpression(err) ==
    [exp |-> simpleExpression(EmptyStr, EmptyStr, EmptyStr), err |-> err]

Fail(err) == [exp |-> NilExpression, err |-> err]

RECURSIVE suffixOpFrom(_, _, _)
suffixOpFrom(s, ops, k) ==
    IF k > Len(ops) THEN [contains |-> FALSE, op |-> EmptyStr]
    ELSE IF HasSuffix(s, ops[k]) THEN [contains |-> TRUE, op |-> ops[k]]
    ELSE suffixOpFrom(s, ops, k + 1)

hasSuffixComparisonOp(s) == suffixOpFrom(s, listComparisonOperator, 1)

hasSuffixLogicalOp(s) == suffixOpFrom(s, listLogicalOperators, 1)

\* 0-based index of the first position at which the running count of
\* open minus closed parentheses is zero, -1 when there is none
RECURSIVE matchingFrom(_, _, _)
matchingFrom(s, i, parenthesisStack) ==
    IF i >= Len(s) THEN -1
    ELSE LET r == s[i + 1]
             stack == IF r = "(" THEN parenthesisStack + 1
                      ELSE IF r = ")" THEN parenthesisStack - 1
                      ELSE parenthesisStack
         IN IF stack = 0 THEN i ELSE matchingFrom(s, i + 1, stack)

\* a plausible slip: the first closing parenthesis is taken as the match
RECURSIVE firstCloseFrom(_, _)
firstCloseFrom(s, i) ==
    IF i >= Len(s) THEN -1
    ELSE IF s[i + 1] = ")" THEN i
    ELSE firstCloseFrom(s, i + 1)

matchingParenthesisPosFirstClose(s) == firstCloseFrom(s, 0)

matchingParenthesisPos(s) == matchingFrom(s, 0, 0)

\* one iteration of the range loop of parseSimpleStatement on character r
simpleStep(st, r) ==
    IF Len(st.buf) = 0 /\ (r = " " \/ r = "(") THEN st
    ELSE LET tmpString == Append(st.buf, r)
             m == hasSuffixComparisonOp(tmpString)
         IN IF ~m.contains THEN [st EXCEPT !.buf = tmpString]
            ELSE IF st.foundOp THEN [st EXCEPT !.err = ErrMultipleOperators]
            ELSE [st EXCEPT !.left = TrimSpace(TrimSuffix(tmpString, m.op)),
                            !.operator = m.op,
                            !.foundOp = TRUE,
                            !.buf = EmptyStr]

RECURSIVE simpleLoop(_, _, _)
simpleLoop(s, i, st) ==
    IF i >= Len(s) \/ st.err # NoError THEN st
    ELSE simpleLoop(s, i + 1, simpleStep(st, s[i + 1]))

\* a plausible slip: what follows NOT EXISTS is dropped
parseSimpleStatementBareNotExists(s) ==
    LET st == simpleLoop(s, 0, [buf |-> EmptyStr, left |-> EmptyStr,
                                operator |-> EmptyStr, foundOp |-> FALSE,
                                err |-> NoError])
    IN IF st.err # NoError THEN Fail(st.err)
       ELSE IF ~st.foundOp THEN Fail(ErrMissingOperator)
       ELSE LET right == IF st.operator = coNotExists THEN EmptyStr
                         ELSE TrimSpace(TrimRight(TrimSpace(st.buf), ")"))
            IN Ok(simpleExpression(st.left, st.operator, right))

parseSimpleStatement(s) ==
    LET st == simpleLoop(s, 0, [buf |-> EmptyStr, left |-> EmptyStr,
                                operator |-> EmptyStr, foundOp |-> FALSE,
                                err |-> NoError])
    IN IF st.err # NoError THEN Fail(st.err)
       ELSE IF ~st.foundOp THEN Fail(ErrMissingOperator)
       ELSE LET right == TrimSpace(TrimRight(TrimSpace(st.buf), ")"))
            IN Ok(simpleExpression(st.left, st.operator, right))

RECURSIVE safeParse(_, _)

\* a plausible slip: the level's operator follows the latest operator read
fixLogicalOpLatest(logicalOp, op) == op

\* if logicalOp == "" { logicalOp = op }
fixLogicalOp(logicalOp, op) == IF logicalOp = EmptyStr THEN op ELSE logicalOp

\* one iteration of the scan loop of safeParse, from the loop state st
\* (pointer, buf, logicalOp, expressions); err is set when the iteration
\* returns an error
safeParseStep(s, depth, st) ==
    LET i == st.pointer
        r == s[i + 1]
    IN IF r = "("
       THEN LET pos == matchingParenthesisPos(SubSeq(s, i + 1, Len(s)))
            IN IF pos < 0 THEN [st EXCEPT !.err = ErrBrokenParenthesis]
               ELSE LET sub == safeParse(SubSeq(s, i + 2, pos + i), depth + 1)
                    IN IF sub.err # NoError THEN [st EXCEPT !.err = sub.err]
                       ELSE [st EXCEPT !.expressions = Append(@, sub.exp),
                                       !.pointer = pos + i + 1]
       ELSE LET tmpString == Append(st.buf, r)
                m == hasSuffixLogicalOp(tmpString)
                logicalOp == fixLogicalOp(st.logicalOp, m.op)
                expStr == TrimSpace(TrimSuffix(tmpString, m.op))
                leaf == parseSimpleStatement(expStr)
            IN IF ~m.contains
               THEN [st EXCEPT !.pointer = i + 1, !.buf = tmpString]
               ELSE IF logicalOp # m.op THEN [st EXCEPT !.err = ErrAlternating]
               ELSE IF Len(expStr) = 0
               THEN [st EXCEPT !.pointer = i + 1, !.buf = EmptyStr,
                               !.logicalOp = logicalOp]
               ELSE IF leaf.err # NoError THEN [st EXCEPT !.err = leaf.err]
               ELSE [st EXCEPT !.pointer = i + 1, !.buf = EmptyStr,
                               !.logicalOp = logicalOp,
                               !.expressions = Append(@, leaf.exp)]

RECURSIVE safeParseLoop(_, _, _)
safeParseLoop(s, depth, st) ==
    IF ~(Len(s) > st.pointer) \/ st.err # NoError THEN st
    ELSE safeParseLoop(s, depth, safeParseStep(s, depth, st))

\* a plausible slip: a single child is unwrapped only when it is a comparison
safeParseFinishSimpleOnly(st) ==
    LET expStr == TrimSpace(st.buf)
        leaf == parseSimpleStatement(expStr)
        expressions == IF Len(expStr) > 0 THEN Append(st.expressions, leaf.exp)
                       ELSE st.expressions
    IN IF Len(expStr) > 0 /\ leaf.err # NoError THEN Fail(leaf.err)
       ELSE IF Len(expressions) = 1 /\ expressions[1].kind = "simple"
       THEN Ok(expressions[1])
       ELSE Ok(complexExpression(st.logicalOp, expressions))

\* the code after the scan loop: the trailing fragment, the unwrapping of a
\* single child, the group
safeParseFinish(st) ==
    LET expStr == TrimSpace(st.buf)
        leaf == parseSimpleStatement(expStr)
        expressions == IF Len(expStr) > 0 THEN Append(st.expressions, leaf.exp)
                       ELSE st.expressions
    IN IF Len(expStr) > 0 /\ leaf.err # NoError THEN Fail(leaf.err)
       ELSE IF Len(expressions) = 1 THEN Ok(expressions[1])
       ELSE Ok(complexExpression(st.logicalOp, expressions))

\* a plausible slip: the depth limit is off by one
safeParseOneDeeper(s, depth) ==
    IF depth > maxDepth + 1 THEN Fail(ErrMaxDepth)
    ELSE LET st == safeParseLoop(s, depth,
                       [pointer |-> 0, buf |-> EmptyStr, logicalOp |-> EmptyStr,
                        expressions |-> <<>>, err |-> NoError])
         IN IF st.err # NoError THEN Fail(st.err) ELSE safeParseFinish(st)

safeParse(s, depth) ==
    IF depth > maxDepth THEN Fail(ErrMaxDepth)
    ELSE LET st == safeParseLoop(s, depth,
                       [pointer |-> 0, buf |-> EmptyStr, logicalOp |-> EmptyStr,
                        expressions |-> <<>>, err |-> NoError])
         IN IF st.err # NoError THEN Fail(st.err) ELSE safeParseFinish(st)

\* remove the surrounding spaces and { }
cleanS(s) == TrimSpace(TrimRight(TrimLeft(TrimSpace(s), "{"), "}"))

\* a plausible slip: the parentheses are counted after the text is parsed
parseCountLast(s) ==
    LET r == safeParse(cleanS(s), 0)
    IN IF r.err # NoError THEN r
       ELSE IF Count(s, "(") # Count(s, ")") THEN Fail(ErrBrokenParenthesis)
       ELSE r

parse(s) ==
    IF Count(s, "(") # Count(s, ")") THEN Fail(ErrBrokenParenthesis)
    ELSE safeParse(cleanS(s), 0)

\* a plausible slip: the second text's error is checked before the first's
areCloudWatchExpressionsEquivalentRightFirst(x, y) ==
    LET statementA == parse(x)
        statementB == parse(y)
    IN IF statementB.err # NoError THEN [ok |-> FALSE, err |-> statementB.err]
       ELSE IF statementA.err # NoError THEN [ok |-> FALSE, err |-> statementA.err]
       ELSE [ok |-> isEquivalent(statementA.exp, statementB.exp), err |-> NoError]

\* (bool, error) of areCloudWatchExpressionsEquivalent
areCloudWatchExpressionsEquivalent(x, y) ==
    LET statementA == parse(x)
        statementB == parse(y)
    IN IF statementA.err # NoError THEN [ok |-> FALSE, err |-> statementA.err]
       ELSE IF statementB.err # NoError THEN [ok |-> FALSE, err |-> statementB.err]
       ELSE [ok |-> isEquivalent(statementA.exp, statementB.exp), err |-> NoError]

----------------------------------------------------------------------------
(* Expression trees that the equivalence check is applied to               *)

MaxChildren == 3

MaxPermChildren == 3

Operands == {<<"a">>, <<"b">>, EmptyStr}

ComparisonOperators == {coEqual, coNotEqual, coNotExists}

LogicalOperators == {loAnd, loOr}

Comparisons ==
    {simpleExpression(l, op, r) : l \in Operands, r \in Operands,
                                  op \in ComparisonOperators}

\* the children that groups are built from
LeafPool ==
    {simpleExpression(<<"a">>, coEqual, <<"b">>),
     simpleExpression(<<"b">>, coEqual, <<"a">>),
     simpleExpression(<<"a">>, coNotEqual, <<"b">>),
     simpleExpression(<<"a">>, coEqual, <<"a">>)}

SmallPool ==
    {simpleExpression(<<"a">>, coEqual, <<"b">>),
     simpleExpression(<<"b">>, coEqual, <<"a">>)}

SeqsUpTo(S, n) == UNION {[1..k -> S] : k \in 0..n}

FlatGroups ==
    {complexExpression(op, xs) : op \in LogicalOperators,
                                 xs \in SeqsUpTo(LeafPool, MaxChildren)}

PairGroups ==
    {complexExpression(op, <<x, y>>) : op \in LogicalOperators,
                                       x \in SmallPool, y \in SmallPool}

NestedGroups ==
    {complexExpression(op, <<x, y>>) : op \in LogicalOperators,
                                       x \in PairGroups \cup SmallPool,
                                       y \in PairGroups}

Trees == Comparisons \cup FlatGroups \cup NestedGroups

\* children of the groups whose permutations are compared: comparisons
\* (two of them equivalent to each other) and nested groups
PermPool ==
    {simpleExpression(<<"a">>, coEqual, <<"b">>),
     simpleExpression(<<"b">>, coEqual, <<"a">>),
     simpleExpression(<<"a">>, coNotEqual, <<"b">>),
     complexExpression(loOr, <<simpleExpression(<<"a">>, coEqual, <<"b">>),
                               simpleExpression(<<"c">>, coEqual, <<"d">>)>>),
     complexExpression(loOr, <<simpleExpression(<<"c">>, coEqual, <<"d">>),
                               simpleExpression(<<"a">>, coNotEqual, <<"b">>)>>)}

IndexPermutations(n) ==
    {p \in [1..n -> 1..n] : \A i, j \in 1..n : p[i] = p[j] => i = j}

Permute(xs, p) == [i \in 1..Len(xs) |-> xs[p[i]]]

----------------------------------------------------------------------------
(* isEquivalent applied to two trees                                       *)

InitEquiv ==
    /\ pc = "start"
    /\ frames = <<>>
    /\ inA = EmptyStr
    /\ inB = EmptyStr
    /\ stA \in Trees
    /\ stB \in Trees
    /\ ret = [ok |-> FALSE, err |-> NoError, exp |-> NilExpression]

InitPerm ==
    /\ pc = "start"
    /\ frames = <<>>
    /\ inA = EmptyStr
    /\ inB = EmptyStr
    /\ \E op \in LogicalOperators :
       \E xs \in SeqsUpTo(PermPool, MaxPermChildren) :
       \E p \in IndexPermutations(Len(xs)) :
          /\ stA = complexExpression(op, xs)
          /\ stB = complexExpression(op, Permute(xs, p))
    /\ ret = [ok |-> FALSE, err |-> NoError, exp |-> NilExpression]

\* stA.isEquivalent(stB)
CallIsEquivalent ==
    /\ pc = "start"
    /\ pc' = "done"
    /\ ret' = [ok |-> isEquivalent(stA, stB), err |-> NoError,
               exp |-> NilExpression]
    /\ UNCHANGED <<frames, inA, inB, stA, stB>>

NextEquiv == CallIsEquivalent

SpecEquiv == InitEquiv /\ [][NextEquiv]_vars

SpecPerm == InitPerm /\ [][NextEquiv]_vars

----------------------------------------------------------------------------
(* Properties of the equivalence check                                     *)

IsPermutationOf(xs, ys) ==
    /\ Len(xs) = Len(ys)
    /\ \E p \in IndexPermutations(Len(xs)) : ys = Permute(xs, p)

\* C1: a group is equivalent to every group with the same logical operator
\* whose children are a permutation of its own children, whether the
\* children are comparisons or nested groups, duplicates included.
C1_GroupOrderIndependence ==
    (/\ pc = "done"
     /\ stA.kind = "complex"
     /\ stB.kind = "complex"
     /\ stA.operator = stB.operator
     /\ IsPermutationOf(stA.expressions, stB.expressions))
    => ret.ok = TRUE

\* three children in another order, a nested group and two comparisons
\* that are equivalent to each other among them
C1_Witness ==
    /\ pc = "done"
    /\ ret.ok = TRUE
    /\ Len(stA.expressions) = 3
    /\ stA.expressions # stB.expressions
    /\ stA.expressions[1].kind = "simple"
    /\ stA.expressions[2].kind = "complex"
    /\ stA.expressions[3].kind = "simple"
    /\ stA.expressions[1] # stA.expressions[3]
    /\ simpleIsEquivalent(stA.expressions[1], stA.expressions[3])
    /\ stB.expressions[1].kind = "complex"

\* C2: a comparison is equivalent to the comparison with the same operator
\* and the two operands exchanged, for each of =, != and NOT EXISTS.
C2_ComparisonCommutativity ==
    (/\ pc = "done"
     /\ stA.kind = "simple"
     /\ stB.kind = "simple"
     /\ stB.operator = stA.operator
     /\ stB.left = stA.right
     /\ stB.right = stA.left)
    => ret.ok = TRUE

C2_Witness ==
    /\ pc = "done"
    /\ stA = simpleExpression(<<"a">>, coNotExists, <<"b">>)
    /\ stB = simpleExpression(<<"b">>, coNotExists, <<"a">>)
    /\ ret.ok = TRUE

\* C3: isEquivalent is symmetric: a.isEquivalent(b) is the boolean that
\* b.isEquivalent(a) returns, for comparisons, groups and one of each.
C3_Symmetric ==
    pc = "done" => ret.ok = isEquivalent(stB, stA)

\* two different nested groups that are equivalent
C3_Witness ==
    /\ pc = "done"
    /\ stA.kind = "complex"
    /\ stB.kind = "complex"
    /\ Len(stA.expressions) = 2
    /\ stA.expressions[1].kind = "complex"
    /\ stA # stB
    /\ ret.ok = TRUE

\* C4: two comparisons with different comparison operators are never
\* equivalent, whatever their operands.
C4_OperatorsMustMatch ==
    (/\ pc = "done"
     /\ stA.kind = "simple"
     /\ stB.kind = "simple"
     /\ stA.operator # stB.operator)
    => ret.ok = FALSE

\* the same operands exchanged, = against !=
C4_Witness ==
    /\ pc = "done"
    /\ stA = simpleExpression(<<"a">>, coNotEqual, <<"b">>)
    /\ stB = simpleExpression(<<"b">>, coEqual, <<"a">>)
    /\ ret.ok = FALSE

\* C5: a group with && and a group with || over the same children are not
\* equivalent, in either argument order.
C5_GroupOperatorSensitivity ==
    (/\ pc = "done"
     /\ stA.kind = "complex"
     /\ stB.kind = "complex"
     /\ stA.operator # stB.operator
     /\ stA.expressions = stB.expressions)
    => ret.ok = FALSE

\* the receiver is the || group, the children include a nested group
C5_Witness ==
    /\ pc = "done"
    /\ stA.kind = "complex"
    /\ stB.kind = "complex"
    /\ stA.operator = loOr
    /\ stB.operator = loAnd
    /\ stA.expressions = stB.expressions
    /\ Len(stA.expressions) = 2
    /\ stA.expressions[2].kind = "complex"
    /\ ret.ok = FALSE

----------------------------------------------------------------------------
(* Expression texts that the parser is applied to                          *)

MaxChain == 3

MaxWrap == 7

Paren(t) == <<"(">> \o t \o <<")">>

Braces(t) == <<"{">> \o t \o <<"}">>

\* x op y, with the spacing sp on both sides of the operator
Join(x, sp, op, y) == x \o sp \o op \o sp \o y

RECURSIVE Wrap(_, _)
Wrap(t, n) == IF n = 0 THEN t ELSE Wrap(Paren(t), n - 1)

\* well-formed comparisons, as text and as the comparison each denotes
LeafAB == [text |-> <<"a", "=", "b">>,
           exp |-> simpleExpression(<<"a">>, coEqual, <<"b">>)]

LeafCD == [text |-> <<"c", " ", "!", "=", " ", "d">>,
           exp |-> simpleExpression(<<"c">>, coNotEqual, <<"d">>)]

LeafE == [text |-> <<"e", " ">> \o coNotExists,
          exp |-> simpleExpression(<<"e">>, coNotExists, EmptyStr)]

Leaves == {LeafAB, LeafCD, LeafE}

LeafTexts == {LeafAB.text, LeafCD.text}

SimpleAtoms == LeafTexts \cup {Paren(l) : l \in LeafTexts}

\* n atoms joined by n - 1 logical operators, each operator chosen freely
RECURSIVE ChainsOf(_, _)
ChainsOf(atoms, n) ==
    IF n = 1 THEN atoms
    ELSE {Join(c, <<" ">>, op, x) :
             c \in ChainsOf(atoms, n - 1), op \in LogicalOperators, x \in atoms}

ChainsUpTo(atoms, n) == UNION {ChainsOf(atoms, k) : k \in 1..n}

TopChains == ChainsUpTo(SimpleAtoms, MaxChain)

InnerChains == ChainsUpTo(SimpleAtoms, MaxChain) \ SimpleAtoms

\* a parenthesised chain beside a simple operand, in both orders
TwoLevelTexts ==
    UNION {{Join(Paren(c), <<>>, op, x), Join(x, <<" ">>, op, Paren(c))} :
              c \in InnerChains, op \in LogicalOperators, x \in LeafTexts}

\* (A) op1 ((B) op2 (C)) and ((B) op2 (C)) op1 (A)
SubFirst(A, sp, op1, B, op2, C) ==
    Join(Paren(Join(Paren(B), sp, op2, Paren(C))), <<" ">>, op1, Paren(A))

SubLast(A, sp, op1, B, op2, C) ==
    Join(Paren(A), <<" ">>, op1, Paren(Join(Paren(B), sp, op2, Paren(C))))

Spacings == {<<>>, <<" ">>}

SubExpressionTexts ==
    UNION {{SubFirst(A.text, sp, op1, B.text, op2, C.text),
            SubLast(A.text, sp, op1, B.text, op2, C.text)} :
              A \in Leaves, B \in Leaves, C \in Leaves,
              op1 \in LogicalOperators, op2 \in LogicalOperators,
              sp \in Spacings}

\* a group nested n levels, one operand and one group per level:
\* a=b op (a=b op2 (a=b op (...))), or with the group first
RECURSIVE NestedChain(_, _, _, _)
NestedChain(n, op, op2, groupFirst) ==
    IF n = 0 THEN LeafAB.text
    ELSE IF groupFirst
    THEN Join(Paren(NestedChain(n - 1, op2, op, groupFirst)), <<" ">>, op,
              LeafAB.text)
    ELSE Join(LeafAB.text, <<" ">>, op,
              Paren(NestedChain(n - 1, op2, op, groupFirst)))

\* small expressions inside 1..MaxWrap pairs of parentheses, alone and as
\* the last operand of a group, and groups nested 1..MaxWrap levels
WrappedTexts ==
    LET cores == ChainsUpTo(LeafTexts, 2)
        wrapped == {Wrap(t, n) : t \in cores, n \in 1..MaxWrap}
    IN wrapped \cup
       {Join(l, <<" ">>, op, w) :
           l \in LeafTexts \cup {Paren(c) : c \in ChainsOf(LeafTexts, 2)},
           op \in LogicalOperators, w \in wrapped} \cup
       {NestedChain(n, op, op2, f) :
           n \in 1..MaxWrap, op \in LogicalOperators,
           op2 \in LogicalOperators, f \in BOOLEAN}

\* {((a=b) && ((a=b) || ((a=b) && (a!=b || (a=b)))))}
FourLayersText ==
    LET ab == LeafAB.text
        l4 == Paren(Join(<<"a", "!", "=", "b">>, <<" ">>, loOr, Paren(ab)))
        l3 == Paren(Join(Paren(ab), <<" ">>, loAnd, l4))
        l2 == Paren(Join(Paren(ab), <<" ">>, loOr, l3))
    IN Braces(Paren(Join(Paren(ab), <<" ">>, loAnd, l2)))

PlainTexts ==
    TopChains \cup TwoLevelTexts \cup SubExpressionTexts \cup WrappedTexts
    \cup {FourLayersText}

\* the same texts between braces, with spaces inside the braces
ParseInputs ==
    PlainTexts \cup {Braces(<<" ">> \o t \o <<" ">>) : t \in WrappedTexts}

----------------------------------------------------------------------------
(* parse applied to a text                                                 *)

InitParse ==
    /\ pc = "start"
    /\ frames = <<>>
    /\ inA \in ParseInputs
    /\ inB = EmptyStr
    /\ stA = NilExpression
    /\ stB = NilExpression
    /\ ret = [ok |-> FALSE, err |-> NoError, exp |-> NilExpression]

\* s, err := parse(inA)
CallParse ==
    /\ pc = "start"
    /\ pc' = "done"
    /\ LET r == parse(inA)
       IN /\ ret' = [ok |-> FALSE, err |-> r.err, exp |-> r.exp]
          /\ stA' = r.exp
    /\ UNCHANGED <<frames, inA, inB, stB>>

NextParse == CallParse

SpecParse == InitParse /\ [][NextParse]_vars

----------------------------------------------------------------------------
(* Properties of parse                                                     *)

\* the nesting level of each character of s: for a parenthesis, the number
\* of parentheses open once it is read
RECURSIVE ProfileFrom(_, _, _)
ProfileFrom(s, i, d) ==
    IF i > Len(s) THEN <<>>
    ELSE LET d2 == IF s[i] = "(" THEN d + 1
                   ELSE IF s[i] = ")" THEN d - 1 ELSE d
         IN <<d2>> \o ProfileFrom(s, i + 1, d2)

NestingProfile(s) == ProfileFrom(s, 1, 0)

Balanced(s) ==
    LET prof == NestingProfile(s)
    IN /\ \A i \in 1..Len(s) : prof[i] >= 0
       /\ Len(s) > 0 => prof[Len(s)] = 0

MaxNesting(s) ==
    LET prof == NestingProfile(s)
    IN IF \A i \in 1..Len(s) : prof[i] <= 0 THEN 0
       ELSE CHOOSE d \in 1..Len(s) :
               /\ \E i \in 1..Len(s) : prof[i] = d
               /\ \A i \in 1..Len(s) : prof[i] <= d

IsOpAt(s, i, op) == i + 1 <= Len(s) /\ s[i] = op[1] /\ s[i + 1] = op[2]

\* an && and an || stand in the same parenthesised group of s: at the same
\* nesting level, with no shallower character between them
MixedAtSomeLevel(s) ==
    LET prof == NestingProfile(s)
    IN \E i, j \in 1..Len(s) :
          /\ IsOpAt(s, i, loAnd)
          /\ IsOpAt(s, j, loOr)
          /\ prof[i] = prof[j]
          /\ \A k \in 1..Len(s) :
                ((i < k /\ k < j) \/ (j < k /\ k < i)) => prof[k] >= prof[i]

\* C7: a text of well-formed comparisons (every text of ParseInputs is one)
\* with balanced parentheses within the depth limit, in which && and ||
\* occur at the same nesting level, fails to parse with the alternating
\* logical operators error, at the top level and inside parentheses alike.
C7_AlternatingOperatorsRejected ==
    (/\ pc = "done"
     /\ Balanced(inA)
     /\ MaxNesting(inA) <= 5
     /\ MixedAtSomeLevel(inA))
    => (ret.err = ErrAlternating /\ ret.exp = NilExpression)

\* the two operators are mixed inside a parenthesised operand only
C7_Witness ==
    /\ pc = "done"
    /\ inA = Join(LeafAB.text, <<" ">>, loAnd,
                  Paren(Join(Join(LeafAB.text, <<" ">>, loOr, LeafCD.text),
                             <<" ">>, loAnd, LeafAB.text)))
    /\ ret.err = ErrAlternating

\* C8: (A) op1 ((B) op2 (C)) with op1 # op2 parses to the group of op1 over
\* A and the group of op2 over B and C, and ((B) op2 (C)) op1 (A) to the
\* group of op1 over that group and A.
C8_SubExpressionOwnOperator ==
    pc = "done" =>
       \A A \in Leaves, B \in Leaves, C \in Leaves :
       \A op1 \in LogicalOperators, op2 \in LogicalOperators, sp \in Spacings :
          op1 # op2 =>
             LET sub == complexExpression(op2, <<B.exp, C.exp>>)
             IN /\ inA = SubLast(A.text, sp, op1, B.text, op2, C.text)
                   => (/\ ret.err = NoError
                       /\ ret.exp = complexExpression(op1, <<A.exp, sub>>))
                /\ inA = SubFirst(A.text, sp, op1, B.text, op2, C.text)
                   => (/\ ret.err = NoError
                       /\ ret.exp = complexExpression(op1, <<sub, A.exp>>))

C8_Witness ==
    /\ pc = "done"
    /\ inA = SubFirst(LeafE.text, <<>>, loAnd, LeafAB.text, loOr, LeafCD.text)
    /\ ret.err = NoError
    /\ ret.exp.operator = loAnd
    /\ ret.exp.expressions[1].operator = loOr
    /\ ret.exp.expressions[2] = LeafE.exp

\* C9: a text of well-formed comparisons with balanced parentheses and one
\* logical operator per level fails to parse with the max depth error when
\* some parenthesised sub-expression is nested more than 5 levels deep.
C9_DepthLimit ==
    (/\ pc = "done"
     /\ Balanced(inA)
     /\ ~MixedAtSomeLevel(inA)
     /\ MaxNesting(inA) > 5)
    => (ret.err = ErrMaxDepth /\ ret.exp = NilExpression)

\* six levels, the smallest nesting over the limit, with an operand parsed
\* at each of the levels above: the operands parsed are dropped
C9_Witness ==
    /\ pc = "done"
    /\ inA = NestedChain(6, loAnd, loOr, FALSE)
    /\ MaxNesting(inA) = 6
    /\ ret.err = ErrMaxDepth
    /\ ret.exp = NilExpression

----------------------------------------------------------------------------
(* The earlier parser of the package, which counts open parentheses        *)
(* (the definitions of src/main.go lines 162 to 304)                       *)

ErrNested_v1 == "not supported more than 2 nested parenthesis"

\* fmt.Errorf("max depth reached (%d), won't parse anymore", depth): the
\* depth grows by one per call from 0, so the check depth > 2 fails at 3
ErrMaxDepth_v1 == "max depth reached (3), won't parse anymore"

\* this parser returns the zero simpleExpression with every error
Fail_v1(err) ==
    [exp |-> simpleExpression(EmptyStr, EmptyStr, EmptyStr), err |-> err]

parseSimpleStatement_v1(s) ==
    LET r == parseSimpleStatement(s)
    IN IF r.err # NoError THEN Fail_v1(r.err) ELSE r

RECURSIVE safeParse_v1(_, _)

\* a plausible slip: the limit on open parentheses is one too high
tooManyOpen_v1Loose(parenthesisAcc) == parenthesisAcc > 4

\* if parenthesisAcc > 3
tooManyOpen_v1(parenthesisAcc) == parenthesisAcc > 3

\* one iteration of the range loop of the earlier safeParse on character r,
\* from the loop state st (buf, parenthesisAcc, logicalOp, expressions,
\* isInsideSubExp)
safeParseStep_v1(depth, st, r) ==
    IF r = "("
    THEN LET acc == st.parenthesisAcc + 1
         IN IF tooManyOpen_v1(acc) THEN [st EXCEPT !.err = ErrNested_v1]
            ELSE [st EXCEPT !.parenthesisAcc = acc,
                            !.isInsideSubExp = (acc > 1) \/ @]
    ELSE IF r = ")"
    THEN IF st.parenthesisAcc - 1 < 0
         THEN [st EXCEPT !.err = ErrBrokenParenthesis]
         ELSE [st EXCEPT !.parenthesisAcc = @ - 1]
    ELSE IF st.isInsideSubExp
    THEN LET expStr == Append(st.buf, r)
             sub == safeParse_v1(expStr, depth + 1)
         IN IF st.parenthesisAcc # 0 THEN [st EXCEPT !.buf = expStr]
            ELSE IF sub.err # NoError THEN [st EXCEPT !.err = sub.err]
            ELSE [st EXCEPT !.expressions = Append(@, sub.exp),
                            !.buf = EmptyStr,
                            !.isInsideSubExp = FALSE]
    ELSE LET tmpString == st.buf
             m == hasSuffixLogicalOp(tmpString)
             logicalOp == fixLogicalOp(st.logicalOp, m.op)
             exprStr == TrimSuffix(tmpString, m.op)
             sub == safeParse_v1(exprStr, depth + 1)
         IN IF ~m.contains THEN [st EXCEPT !.buf = Append(@, r)]
            ELSE IF logicalOp # m.op THEN [st EXCEPT !.err = ErrAlternating]
            ELSE IF Len(exprStr) = 0
            THEN [st EXCEPT !.logicalOp = logicalOp, !.buf = <<r>>]
            ELSE IF sub.err # NoError THEN [st EXCEPT !.err = sub.err]
            ELSE [st EXCEPT !.logicalOp = logicalOp, !.buf = <<r>>,
                            !.expressions = Append(@, sub.exp)]

\* the loop state on entry: empty buffer, no open parenthesis, no operator
scanStart_v1 ==
    [buf |-> EmptyStr, parenthesisAcc |-> 0, logicalOp |-> EmptyStr,
     expressions |-> <<>>, isInsideSubExp |-> FALSE, err |-> NoError]

RECURSIVE safeParseLoop_v1(_, _, _, _)
safeParseLoop_v1(s, depth, i, st) ==
    IF i >= Len(s) \/ st.err # NoError THEN st
    ELSE safeParseLoop_v1(s, depth, i + 1, safeParseStep_v1(depth, st, s[i + 1]))

safeParse_v1(s, depth) ==
    IF depth > 2 THEN Fail_v1(ErrMaxDepth_v1)
    ELSE LET st == safeParseLoop_v1(s, depth, 0, scanStart_v1)
             last == safeParse_v1(st.buf, depth + 1)
         IN IF st.err # NoError THEN Fail_v1(st.err)
            ELSE IF Len(st.expressions) = 0 THEN parseSimpleStatement_v1(s)
            ELSE IF Len(st.buf) = 0
            THEN Ok(complexExpression(st.logicalOp, st.expressions))
            ELSE IF last.err # NoError THEN Fail_v1(last.err)
            ELSE Ok(complexExpression(st.logicalOp,
                                      Append(st.expressions, last.exp)))

parse_v1(s) == safeParse_v1(cleanS(s), 0)

----------------------------------------------------------------------------
(* The earlier parse applied to a text                                     *)

CallParse_v1 ==
    /\ pc = "start"
    /\ pc' = "done"
    /\ LET r == parse_v1(inA)
       IN /\ ret' = [ok |-> FALSE, err |-> r.err, exp |-> r.exp]
          /\ stA' = r.exp
    /\ UNCHANGED <<frames, inA, inB, stB>>

NextParse_v1 == CallParse_v1

\* texts 4 layers deep whose first layers hold an operand without operator,
\* a logical operator in front of the parentheses, a group closed early
FourLayerVariants ==
    LET ab == LeafAB.text
    IN {Wrap(<<"a">>, 2) \o <<"b">> \o Wrap(ab, 4),
        Join(ab, <<" ">>, loAnd, Wrap(ab, 4)),
        Join(ab, <<" ">>, loOr, Wrap(ab, 5)),
        Paren(Join(Paren(ab), <<" ">>, loAnd, Wrap(ab, 3))),
        Wrap(ab, 2) \o <<" ">> \o loAnd \o <<" ">> \o Wrap(ab, 4),
        Paren(Join(ab, <<" ">>, loAnd, Wrap(ab, 3))),
        Paren(Join(Join(ab, <<" ">>, loAnd, ab), <<" ">>, loOr, Wrap(ab, 3)))}

InitParse_v1 ==
    /\ pc = "start"
    /\ frames = <<>>
    /\ inA \in ParseInputs \cup FourLayerVariants
    /\ inB = EmptyStr
    /\ stA = NilExpression
    /\ stB = NilExpression
    /\ ret = [ok |-> FALSE, err |-> NoError, exp |-> NilExpression]

SpecParse_v1 == InitParse_v1 /\ [][NextParse_v1]_vars

----------------------------------------------------------------------------
(* areCloudWatchExpressionsEquivalent applied to two texts                 *)

BrokenText == <<"(">> \o LeafAB.text

DoubleOperatorText == <<"a", "=", "=", "b">>

NoOperatorText == <<"a", "b">>

AlternatingText ==
    Join(Join(LeafAB.text, <<" ">>, loAnd, LeafCD.text), <<" ">>, loOr, LeafAB.text)

TooDeepText == Wrap(LeafAB.text, 6)

AreInputs ==
    {LeafAB.text,
     <<"b", "=", "a">>,
     Braces(Join(LeafAB.text, <<" ">>, loAnd, LeafCD.text)),
     Join(Paren(LeafCD.text), <<>>, loAnd, Paren(LeafAB.text)),
     Join(Paren(LeafCD.text), <<>>, loOr, Paren(LeafAB.text)),
     BrokenText, DoubleOperatorText, NoOperatorText, AlternatingText,
     TooDeepText}

InitAre ==
    /\ pc = "start"
    /\ frames = <<>>
    /\ inA \in AreInputs
    /\ inB \in AreInputs
    /\ stA = NilExpression
    /\ stB = NilExpression
    /\ ret = [ok |-> FALSE, err |-> NoError, exp |-> NilExpression]

\* areEquivalent, err := areCloudWatchExpressionsEquivalent(inA, inB)
CallAreEquivalent ==
    /\ pc = "start"
    /\ pc' = "done"
    /\ LET r == areCloudWatchExpressionsEquivalent(inA, inB)
       IN ret' = [ok |-> r.ok, err |-> r.err, exp |-> NilExpression]
    /\ UNCHANGED <<frames, inA, inB, stA, stB>>

NextAre == CallAreEquivalent

SpecAre == InitAre /\ [][NextAre]_vars

\* C6: areCloudWatchExpressionsEquivalent(a, b) returns (false, the error
\* of a) when a fails to parse, also when b is invalid too; (false, the
\* error of b) when a parses and b fails; and (isEquivalent of the two
\* trees, no error) when both parse.
C6_LeftErrorFirst ==
    pc = "done" =>
       LET pa == parse(inA)
           pb == parse(inB)
       IN /\ pa.err # NoError => (ret.ok = FALSE /\ ret.err = pa.err)
          /\ (pa.err = NoError /\ pb.err # NoError)
                => (ret.ok = FALSE /\ ret.err = pb.err)
          /\ (pa.err = NoError /\ pb.err = NoError)
                => (ret.ok = isEquivalent(pa.exp, pb.exp) /\ ret.err = NoError)

\* both texts are invalid, with different errors: the error of a is returned
C6_Witness ==
    /\ pc = "done"
    /\ inA = AlternatingText
    /\ inB = DoubleOperatorText
    /\ ret.ok = FALSE
    /\ ret.err = ErrAlternating

\* the position of the first parenthesis of s that opens layer n, 0 when
\* there is none
LayerPos(s, n) ==
    LET prof == NestingProfile(s)
        at == {i \in 1..Len(s) : prof[i] >= n}
    IN IF at = {} THEN 0 ELSE CHOOSE i \in at : \A j \in at : i <= j

\* no & and no | stands in front of the parenthesis that opens the second
\* layer of s, and from that parenthesis to the one that opens the fourth
\* layer some parenthesis is open all the time
OpensFourLayersInOneGroup(s) ==
    LET prof == NestingProfile(s)
        second == LayerPos(s, 2)
        fourth == LayerPos(s, 4)
    IN /\ fourth > 0
       /\ \A i \in 1..(second - 1) : s[i] \notin {"&", "|"}
       /\ \A i \in second..fourth : prof[i] >= 1

\* C10 as stated: with the earlier parser, an expression (a text that the
\* later parser accepts) whose parentheses are 4 layers deep fails with the
\* error "not supported more than 2 nested parenthesis" and the zero
\* expression.
C10_AsStated ==
    (/\ pc = "done"
     /\ Balanced(inA)
     /\ MaxNesting(inA) = 4
     /\ parse(inA).err = NoError)
    => (/\ ret.err = ErrNested_v1
        /\ ret.exp = simpleExpression(EmptyStr, EmptyStr, EmptyStr))

\* C10: with the earlier parser, a text whose parentheses are 4 or more
\* layers deep fails and returns the zero expression; the error is "not
\* supported more than 2 nested parenthesis" when the text opens its four
\* layers in one group, as {((a=b) && ((a=b) || ((a=b) && (a!=b || (a=b)))))}
\* does, and otherwise that one or an error met earlier in the text.
C10_FourLayersRejected ==
    (/\ pc = "done"
     /\ Balanced(inA)
     /\ MaxNesting(inA) >= 4)
    => (/\ ret.err # NoError
        /\ ret.exp = simpleExpression(EmptyStr, EmptyStr, EmptyStr)
        /\ OpensFourLayersInOneGroup(inA) => ret.err = ErrNested_v1
        /\ inA = FourLayersText => ret.err = ErrNested_v1)

C10_Witness ==
    /\ pc = "done"
    /\ inA = FourLayersText
    /\ ret.err = ErrNested_v1
    /\ ret.exp = simpleExpression(EmptyStr, EmptyStr, EmptyStr)

----------------------------------------------------------------------------
(* Malformed and degenerate texts that the parser is applied to            *)

MaxTokens == 4

MaxLeafTokens == 5

\* the pieces that the short texts are made of
DefectTokens ==
    {<<"a">>, <<" ">>, coEqual, coNotEqual, loAnd, loOr, <<"(">>, <<")">>}

\* the pieces of a text without parentheses and with one logical operator
LeafTokens == {<<"a">>, <<" ">>, coEqual, coNotEqual, coNotExists, loAnd}

RECURSIVE Concat(_)
Concat(ts) == IF ts = <<>> THEN <<>> ELSE Head(ts) \o Concat(Tail(ts))

\* every text made of at most n pieces
TokenTexts(tokens, n) == {Concat(ts) : ts \in SeqsUpTo(tokens, n)}

\* a defect that safeParse reports, followed by an unmatched parenthesis
DoubleThenOpen ==
    Join(<<"a", " ", "=", "=", " ", "b">>, <<" ">>, loAnd, <<"(">> \o LeafCD.text)

MixedThenOpen == AlternatingText \o <<" ", "&", "&", " ", "(">> \o LeafAB.text

MissingThenClose == Join(NoOperatorText, <<" ">>, loOr, LeafAB.text \o <<")">>)

TooDeepThenOpen == Join(TooDeepText, <<" ">>, loAnd, <<"(">> \o LeafAB.text)

\* the doubled operators of the parser's tests, between braces
DoubleEqualsText == Braces(<<" ", "a", " ", "=", "=", " ", "b", " ">>)

NotEqualEqualsText == Braces(<<" ", "a", " ", "!", "=", "=", " ", "b", " ">>)

TrailingOperatorText ==
    Braces(<<" ", "a", " ", "!", "=", " ", "b", " ", "!", "=">>)

DoubledOperatorTexts ==
    {DoubleEqualsText, NotEqualEqualsText, TrailingOperatorText}

Quote(v) == <<"\"">> \o v \o <<"\"">>

\* what stands between the quotes: plain words, and words with a logical
\* operator, a comparison operator or parentheses among them
QuotedValues ==
    {<<"x", " ", " ", "y", " ">>,
     <<"x", " ">> \o loAnd \o <<" ", "y">>,
     <<"x", " ">> \o loOr \o <<" ", "y">>,
     <<"x", "=", "y">>,
     <<"x", " ">> \o coNotEqual \o <<" ", "y">>,
     <<"(", "x">>,
     <<"x", ")">>,
     <<"(", "x", ")">>}

\* a op "V", alone and between braces
QuotedText(op, v) == Join(<<"a">>, <<" ">>, op, Quote(v))

QuotedTexts ==
    UNION {{QuotedText(op, v), Braces(<<" ">> \o QuotedText(op, v) \o <<" ">>)} :
              op \in {coEqual, coNotEqual}, v \in QuotedValues}

MaxEmbed == 3

\* fragments that fail to parse, each with the error it fails with
BadFragments ==
    {[text |-> DoubleOperatorText, err |-> ErrMultipleOperators],
     [text |-> NoOperatorText, err |-> ErrMissingOperator],
     [text |-> AlternatingText, err |-> ErrAlternating],
     [text |-> TooDeepText, err |-> ErrMaxDepth]}

\* the fragment bad inside n nested groups, each group with a comparison
\* parsed in front of the parenthesis: a=b && (a=b || (a=b && (bad)))
RECURSIVE EmbedDefect(_, _, _)
EmbedDefect(n, op, bad) ==
    IF n = 0 THEN bad
    ELSE Join(LeafAB.text, <<" ">>, op,
              Paren(EmbedDefect(n - 1, IF op = loAnd THEN loOr ELSE loAnd, bad)))

EmbeddedDefectTexts ==
    {EmbedDefect(n, op, bad.text) :
        n \in 0..MaxEmbed, op \in LogicalOperators, bad \in BadFragments}

\* texts without any comparison
EmptyTexts == {EmptyStr, Braces(EmptyStr), Paren(EmptyStr), Braces(<<" ">>)}

\* sub-expressions side by side with no logical operator between them
JuxtaposedTexts ==
    {Paren(LeafAB.text) \o Paren(LeafCD.text),
     LeafAB.text \o <<" ">> \o Paren(LeafCD.text),
     Braces(Paren(LeafAB.text) \o <<" ">> \o Paren(LeafCD.text))}

\* a NOT EXISTS with something behind it in the same fragment
NotExistsThenB == <<"a", " ">> \o coNotExists \o <<" ", "b">>

TrailingContentTexts ==
    {NotExistsThenB,
     Braces(<<" ">> \o NotExistsThenB \o <<" ", "c", " ">>),
     <<"a", " ">> \o coNotExists \o <<" ">> \o Quote(<<"x", " ", "y">>)}

UnbalancedTexts ==
    {DoubleThenOpen, MixedThenOpen, MissingThenClose, TooDeepThenOpen,
     Braces(DoubleThenOpen), Braces(TooDeepThenOpen)}

\* a comparison between white space other than the space
OtherSpaceTexts ==
    {<<"\f">> \o LeafAB.text \o <<VerticalTab>>,
     <<"\t", VerticalTab>> \o LeafAB.text \o <<"\f", "\n">>,
     Braces(<<"\r", "\f">> \o LeafAB.text \o <<VerticalTab, " ">>),
     <<"\f", VerticalTab>>}

DefectInputs ==
    OtherSpaceTexts \cup TokenTexts(DefectTokens, MaxTokens) \cup TokenTexts(LeafTokens, MaxLeafTokens)
    \cup UnbalancedTexts \cup DoubledOperatorTexts \cup QuotedTexts
    \cup EmbeddedDefectTexts \cup EmptyTexts \cup JuxtaposedTexts
    \cup TrailingContentTexts

InitDefect ==
    /\ pc = "start"
    /\ frames = <<>>
    /\ inA \in DefectInputs
    /\ inB = EmptyStr
    /\ stA = NilExpression
    /\ stB = NilExpression
    /\ ret = [ok |-> FALSE, err |-> NoError, exp |-> NilExpression]

SpecDefect == InitDefect /\ [][NextParse]_vars

\* C11: a text in which the number of ( differs from the number of ) fails
\* to parse with the broken parenthesis error and no expression, also when
\* an earlier part of the text has mixed logical operators, several
\* comparison operators, no operator or too many nested parentheses.
C11_BalanceCheckedFirst ==
    (pc = "done" /\ Count(inA, "(") # Count(inA, ")"))
    => (ret.err = ErrBrokenParenthesis /\ ret.exp = NilExpression)

\* the scan alone would report the doubled comparison operator first
C11_Witness ==
    /\ pc = "done"
    /\ inA = DoubleThenOpen
    /\ safeParse(cleanS(inA), 0).err = ErrMultipleOperators
    /\ ret.err = ErrBrokenParenthesis
    /\ ret.exp = NilExpression

\* the number of places of s at which pat stands
OccurrencesOf(s, pat) ==
    Cardinality({i \in 1..(Len(s) - Len(pat) + 1) :
                    SubSeq(s, i, i + Len(pat) - 1) = pat})

\* the comparison-operator tokens of a leaf fragment: every = (alone or as
\* the end of !=) and every NOT EXISTS
ComparisonTokens(s) == Count(s, "=") + OccurrencesOf(s, coNotExists)

\* a text that is one leaf fragment: no parenthesis, brace or logical operator
IsLeafFragment(s) ==
    /\ Len(s) > 0
    /\ \A i \in 1..Len(s) : s[i] \notin {"(", ")", "{", "}", "&", "|"}

\* the place of the only != of s
NotEqualPos(s) ==
    CHOOSE i \in 1..(Len(s) - 1) : SubSeq(s, i, i + 1) = coNotEqual

\* C12: a leaf fragment with two or more comparison-operator tokens (as in
\* a == b, a !== b and a != b !=) makes parseSimpleStatement and parse fail
\* with the multiple comparison operators error; a leaf fragment whose only
\* comparison-operator token is != parses to the not-equals comparison of
\* the text in front of the != and the text behind it.
C12_MultipleComparisonOperators ==
    (pc = "done" /\ IsLeafFragment(cleanS(inA))) =>
       LET leaf == cleanS(inA)
       IN /\ ComparisonTokens(leaf) >= 2
             => (/\ parseSimpleStatement(leaf) = Fail(ErrMultipleOperators)
                 /\ ret.err = ErrMultipleOperators
                 /\ ret.exp = NilExpression)
          /\ (ComparisonTokens(leaf) = 1 /\ OccurrencesOf(leaf, coNotEqual) = 1)
             => (/\ ret.err = NoError
                 /\ ret.exp = simpleExpression(
                        TrimSpace(SubSeq(leaf, 1, NotEqualPos(leaf) - 1)),
                        coNotEqual,
                        TrimSpace(SubSeq(leaf, NotEqualPos(leaf) + 2, Len(leaf)))))

\* a != b != : the second != is the last thing read
C12_Witness ==
    /\ pc = "done"
    /\ inA = TrailingOperatorText
    /\ ComparisonTokens(cleanS(inA)) = 2
    /\ ret.err = ErrMultipleOperators
    /\ ret.exp = NilExpression

----------------------------------------------------------------------------
(* parse applied to two texts, one after the other                         *)

MaxPairTokens == 3

\* (X), with or without outer braces and surrounding spaces
Wrappings(X) ==
    LET spaced == <<" ">> \o Paren(<<" ">> \o X \o <<" ">>) \o <<" ">>
    IN {Paren(X), Braces(Paren(X)), spaced, Braces(spaced)}

\* texts to wrap: short texts of any shape, nested texts, texts with braces
WrapCandidates ==
    TokenTexts(DefectTokens, MaxPairTokens) \cup WrappedTexts
    \cup {Braces(LeafAB.text), LeafAB.text \o <<"}">>}

WrapPairs == UNION {{<<X, W>> : W \in Wrappings(X)} : X \in WrapCandidates}

MaxSpaces == 1

\* 0..MaxSpaces spaces
RECURSIVE SpacesOf(_)
SpacesOf(k) == IF k = 0 THEN <<>> ELSE <<" ">> \o SpacesOf(k - 1)

SpaceChoices == {SpacesOf(k) : k \in 0..MaxSpaces}

\* the tokens toks with gaps[i] in front of the i-th token and gaps[n + 1]
\* behind the last one
RECURSIVE RenderFrom(_, _, _)
RenderFrom(toks, gaps, i) ==
    IF i > Len(toks) THEN gaps[i]
    ELSE gaps[i] \o toks[i] \o RenderFrom(toks, gaps, i + 1)

Render(toks, gaps) == RenderFrom(toks, gaps, 1)

NoGaps(toks) == [i \in 1..(Len(toks) + 1) |-> <<>>]

QuotedXY == <<"\"", "x", " ", "y", "\"">>

\* token sequences: operands (one with a space inside, one quoted),
\* comparison and logical operators, parentheses, one pair of outer braces
TokenSequences ==
    LET a == <<"a">>
        b == <<"b">>
        ab == LeafAB.text
        cd == <<"c", "!", "=", "d">>
        open == <<"(">>
        close == <<")">>
    IN {<<a, coEqual, b>>,
        <<a, coNotEqual, b>>,
        <<a, coNotExists>>,
        <<<<"a", " ", "b">>, coEqual, QuotedXY>>,
        <<ab, loAnd, cd>>,
        <<a, coNotExists, loOr, ab>>,
        <<open, ab, close, loAnd, open, cd, close>>,
        <<ab, loOr, open, cd, loAnd, ab, close>>,
        <<<<"{">>, ab, <<"}">>>>,
        <<<<"{">>, open, a, coEqual, b, close, <<"}">>>>,
        <<a, coEqual, coEqual, b>>,
        <<a, coNotEqual, coEqual, b>>,
        <<ab, loAnd, cd, loOr, ab>>,
        <<open, ab>>,
        <<ab, close, open>>,
        <<ab, open, cd, close>>,
        <<open, close>>,
        <<loAnd>>,
        <<ab, loAnd>>,
        <<a>>}

MaxSeqTokens == 4

\* every sequence of 1..MaxSeqTokens tokens out of an operand, a comparison
\* operator, a logical operator and the two parentheses
SequenceTokens == {<<"a">>, coEqual, loAnd, <<"(">>, <<")">>}

AllTokenSequences == SeqsUpTo(SequenceTokens, MaxSeqTokens) \ {<<>>}

IsOperandToken(t) ==
    t \notin {coEqual, coNotEqual, coNotExists, loAnd, loOr,
              <<"(">>, <<")">>, <<"{">>, <<"}">>}

\* the number of parentheses open in front of the i-th token
RECURSIVE OpenBefore(_, _)
OpenBefore(toks, i) ==
    IF i = 1 THEN 0
    ELSE OpenBefore(toks, i - 1)
         + (IF toks[i - 1] = <<"(">> THEN 1
            ELSE IF toks[i - 1] = <<")">> THEN -1 ELSE 0)

\* two operands of one group have nothing but parenthesised groups between
\* them, or nothing at all
OperandsJoined(toks) ==
    LET open == [i \in 1..Len(toks) |-> OpenBefore(toks, i)]
    IN \E i, j \in 1..Len(toks) :
          /\ i < j
          /\ IsOperandToken(toks[i])
          /\ IsOperandToken(toks[j])
          /\ open[i] = open[j]
          /\ \A k \in (i + 1)..(j - 1) :
                \/ open[k] > open[i]
                \/ open[k] = open[i] /\ toks[k] = <<"(">>

\* the spacings of toks, numbered: MaxSpaces spaces in gap c alone for c up
\* to MaxSeqTokens + 1 (none when toks has no gap c), then 1..MaxSpaces
\* spaces in every gap
SpacingNumbers == 1..(MaxSeqTokens + 1 + MaxSpaces)

GapsNumbered(toks, c) ==
    [i \in 1..(Len(toks) + 1) |->
        IF c > MaxSeqTokens + 1 THEN SpacesOf(c - (MaxSeqTokens + 1))
        ELSE IF i = c THEN SpacesOf(MaxSpaces)
        ELSE <<>>]

\* the renderings of the sequences in seqs beside the one without any space
SpacedBesideBare(seqs) ==
    {<<Render(toks, GapsNumbered(toks, c)), Render(toks, NoGaps(toks))>> :
        toks \in seqs, c \in SpacingNumbers}

\* a(c=d)b=e: the text on both sides of a group is one operand
AroundGroupSequence ==
    <<<<"a">>, <<"(">>, <<"c">>, coEqual, <<"d">>, <<")">>, <<"b">>, coEqual,
      <<"e">>>>

\* each rendering of a token sequence beside the one without any space
ChosenSpacingPairs ==
    UNION {{<<Render(toks, gaps), Render(toks, NoGaps(toks))>> :
               gaps \in [1..(Len(toks) + 1) -> SpaceChoices]} :
              toks \in TokenSequences}

\* every sequence of at most MaxSeqTokens tokens in which no two operands
\* are joined, beside its bare rendering
GeneratedSpacingPairs ==
    SpacedBesideBare({toks \in AllTokenSequences : ~OperandsJoined(toks)})

SpacingPairs == ChosenSpacingPairs \cup GeneratedSpacingPairs

\* the same for the sequences in which two operands are joined
JoinedOperandPairs ==
    SpacedBesideBare({toks \in AllTokenSequences : OperandsJoined(toks)}
                     \cup {AroundGroupSequence})

\* texts that differ by a space inside an operand or inside an operator
InteriorSpacePairs ==
    {<<<<"a", " ", "b", "=", "c">>, <<"a", "b", "=", "c">>>>,
     <<<<"a", " ">> \o coNotExists, <<"a", " ", "N", "O", "T">> \o <<"E", "X", "I", "S", "T", "S">>>>,
     <<<<"a", "=", "b", "&", " ", "&", "c", "=", "d">>, <<"a", "=", "b">> \o loAnd \o <<"c", "=", "d">>>>,
     <<<<"a", "!", " ", "=", "b">>, <<"a", "!", "=", "b">>>>}

PairInputs ==
    SpacingPairs \cup (JoinedOperandPairs \cup (WrapPairs \cup InteriorSpacePairs))

InitPair ==
    /\ pc = "start"
    /\ frames = <<>>
    /\ \E p \in PairInputs : inA = p[1] /\ inB = p[2]
    /\ stA = NilExpression
    /\ stB = NilExpression
    /\ ret = [ok |-> FALSE, err |-> NoError, exp |-> NilExpression]

\* s, err := parse(inB), after inA was parsed
CallParseSecond ==
    /\ pc = "done"
    /\ pc' = "done2"
    /\ LET r == parse(inB)
       IN /\ ret' = [ok |-> FALSE, err |-> r.err, exp |-> r.exp]
          /\ stB' = r.exp
    /\ UNCHANGED <<frames, inA, inB, stA>>

NextPair == CallParse \/ CallParseSecond

SpecPair == InitPair /\ [][NextPair]_vars

\* parse returns nil exactly when it returns an error
Accepted(exp) == exp.kind # "nil"

BraceFree(s) == \A i \in 1..Len(s) : s[i] \notin {"{", "}"}

\* C13 as stated: for every text X that parse accepts (X being the text
\* inside the outer braces, with no brace of its own), (X), with or without
\* outer braces and surrounding spaces, parses to the tree of X.
C13_AsStated ==
    (/\ pc = "done2"
     /\ inB \in Wrappings(inA)
     /\ Accepted(stA)
     /\ BraceFree(inA))
    => (ret.err = NoError /\ stB = stA)

\* C13: for every text X without braces that parse accepts and whose
\* parentheses are nested at most maxDepth - 1 levels, (X), with or without
\* outer braces and surrounding spaces, parses to the tree of X; when the
\* parentheses of X are nested maxDepth levels, (X) fails with the max depth
\* error.
C13_RedundantParenthesesUnwrapped ==
    (/\ pc = "done2"
     /\ inB \in Wrappings(inA)
     /\ Accepted(stA)
     /\ BraceFree(inA))
    => (/\ MaxNesting(inA) <= maxDepth - 1 => (ret.err = NoError /\ stB = stA)
        /\ MaxNesting(inA) = maxDepth
              => (ret.err = ErrMaxDepth /\ stB = NilExpression))

\* a group nested four levels keeps its tree inside one more pair
C13_Witness ==
    /\ pc = "done2"
    /\ inA = NestedChain(4, loAnd, loOr, TRUE)
    /\ inB = Braces(Paren(inA))
    /\ stA.kind = "complex"
    /\ ret.err = NoError
    /\ stB = stA

\* s without the spaces that stand outside double quotes
RECURSIVE StripFrom(_, _, _)
StripFrom(s, i, inQuotes) ==
    IF i > Len(s) THEN <<>>
    ELSE IF s[i] = "\"" THEN <<s[i]>> \o StripFrom(s, i + 1, ~inQuotes)
    ELSE IF s[i] = " " /\ ~inQuotes THEN StripFrom(s, i + 1, inQuotes)
    ELSE <<s[i]>> \o StripFrom(s, i + 1, inQuotes)

StripOutsideQuotes(s) == StripFrom(s, 1, FALSE)

\* C14 as stated: two texts that differ only by spaces outside quoted
\* literals parse to the same tree, or both fail.
C14_AsStated ==
    (pc = "done2" /\ StripOutsideQuotes(inA) = StripOutsideQuotes(inB))
    => stA = stB

\* C14: two texts made of the same sequence of tokens (operands, comparison
\* operators, logical operators, parentheses, one pair of outer braces), in
\* which no two operands are neighbours or have only parenthesised groups
\* between them, and that differ only in the spaces between the tokens and
\* at the two ends, get the same result from parse: the same tree, or the
\* same error; in the first case areCloudWatchExpressionsEquivalent returns
\* true for them.
C14_SpacesBetweenTokens ==
    (pc = "done2" /\ <<inA, inB>> \in SpacingPairs)
    => (/\ stA = stB
        /\ ret.err = parse(inA).err
        /\ Accepted(stA)
              => areCloudWatchExpressionsEquivalent(inA, inB)
                    = [ok |-> TRUE, err |-> NoError])

\* spaces at both ends, around the braces and the parentheses and around the
\* comparison operator
C14_Witness ==
    /\ pc = "done2"
    /\ inA = <<" ", "{", " ", "(", " ", "a", " ", "=", " ", "b", " ", ")",
               " ", "}", " ">>
    /\ inB = Braces(Paren(LeafAB.text))
    /\ stA = LeafAB.exp
    /\ stB = LeafAB.exp

\* C15: a op "V" parses to the comparison whose right operand is "V", the
\* quotes included and the inner spaces kept, whatever V contains: a logical
\* operator, a comparison operator, parentheses.
C15_QuotedLiteralOpaque ==
    pc = "done" =>
       \A op \in {coEqual, coNotEqual}, v \in QuotedValues :
          cleanS(inA) = QuotedText(op, v)
             => (/\ ret.err = NoError
                 /\ ret.exp = simpleExpression(<<"a">>, op, Quote(v)))

ErrorMessages ==
    {ErrBrokenParenthesis, ErrMaxDepth, ErrAlternating, ErrMultipleOperators,
     ErrMissingOperator}

\* C16: when parse fails it returns one of the five error messages as it
\* was created, and no expression (nil); a fragment that fails with some
\* error makes the whole text fail with that very error when it stands
\* inside nested groups whose earlier operands were parsed already.
C16_ErrorsPropagateUnchanged ==
    pc = "done" =>
       /\ ret.err # NoError
             => (ret.exp = NilExpression /\ ret.err \in ErrorMessages)
       /\ \A n \in 0..MaxEmbed, op \in LogicalOperators, bad \in BadFragments :
             inA = EmbedDefect(n, op, bad.text)
                => (ret.err = bad.err /\ ret.exp = NilExpression)

\* the doubled operator three groups deep, three operands parsed before it
C16_Witness ==
    /\ pc = "done"
    /\ inA = EmbedDefect(3, loAnd, DoubleOperatorText)
    /\ MaxNesting(inA) = 3
    /\ ret.err = ErrMultipleOperators
    /\ ret.exp = NilExpression

----------------------------------------------------------------------------
(* More properties of the equivalence check                                *)

\* some one-to-one pairing of the elements of xs with the elements of ys
\* pairs equivalent elements only
ExistsPairing(xs, ys) ==
    \E p \in IndexPermutations(Len(xs)) :
       \A i \in 1..Len(xs) : isEquivalent(xs[i], ys[p[i]])

\* C17: for two groups with the same operator and the same number of
\* children, isEquivalent returns true exactly when some one-to-one pairing
\* of the children of the one with the children of the other pairs
\* equivalent children only; no child is consumed twice.
C17_GreedyMatchIsExact ==
    (/\ pc = "done"
     /\ stA.kind = "complex"
     /\ stB.kind = "complex"
     /\ stA.operator = stB.operator
     /\ Len(stA.expressions) = Len(stB.expressions))
    => ret.ok = ExistsPairing(stA.expressions, stB.expressions)

\* Group(op, [X, X]) against Group(op, [X, Y])
C17_Witness ==
    /\ pc = "done"
    /\ stA = complexExpression(loAnd,
                <<simpleExpression(<<"a">>, coEqual, <<"b">>),
                  simpleExpression(<<"a">>, coEqual, <<"b">>)>>)
    /\ stB = complexExpression(loAnd,
                <<simpleExpression(<<"a">>, coEqual, <<"b">>),
                  simpleExpression(<<"a">>, coNotEqual, <<"b">>)>>)
    /\ ret.ok = FALSE

\* comparisons and groups of 0..MaxChildren comparisons
KindTrees == Comparisons \cup FlatGroups

\* texts that parse to a comparison, texts that parse to a group, and
\* texts that fail
KindTexts ==
    AreInputs \cup {Paren(LeafAB.text), Braces(Paren(LeafCD.text)),
                    Paren(Join(LeafAB.text, <<" ">>, loOr, LeafAB.text))}

\* either two trees are compared, or two texts
InitKinds ==
    /\ pc = "start"
    /\ frames = <<>>
    /\ \/ /\ stA \in KindTrees
          /\ stB \in KindTrees
          /\ inA = EmptyStr
          /\ inB = EmptyStr
       \/ /\ inA \in KindTexts
          /\ inB \in KindTexts
          /\ stA = NilExpression
          /\ stB = NilExpression
    /\ ret = [ok |-> FALSE, err |-> NoError, exp |-> NilExpression]

NextKinds ==
    \/ (stA.kind # "nil" /\ CallIsEquivalent)
    \/ (stA.kind = "nil" /\ CallAreEquivalent)

SpecKinds == InitKinds /\ [][NextKinds]_vars

\* C18: isEquivalent is false for a comparison and a group, whichever is
\* the receiver, also when the group's only child is that comparison; and
\* areCloudWatchExpressionsEquivalent returns (false, no error) for two
\* texts that parse to a comparison and to a group.
C18_KindMismatch ==
    pc = "done" =>
       /\ (stA.kind # "nil" /\ stA.kind # stB.kind) => ret.ok = FALSE
       /\ stA.kind = "nil" =>
             LET pa == parse(inA)
                 pb == parse(inB)
             IN (/\ pa.err = NoError
                 /\ pb.err = NoError
                 /\ pa.exp.kind # pb.exp.kind)
                => (ret.ok = FALSE /\ ret.err = NoError)

\* a comparison against the group whose only child it is
C18_Witness ==
    /\ pc = "done"
    /\ stA = simpleExpression(<<"a">>, coEqual, <<"b">>)
    /\ stB = complexExpression(loAnd, <<stA>>)
    /\ ret.ok = FALSE

----------------------------------------------------------------------------
(* The groups of a parsed tree                                             *)

\* the groups of the tree e, the root and the nested ones
RECURSIVE GroupsOf(_)
GroupsOf(e) ==
    IF e.kind # "complex" THEN {}
    ELSE {e} \cup UNION {GroupsOf(e.expressions[i]) :
                            i \in 1..Len(e.expressions)}

\* C19: every group of a tree that parse returns without an error, at the
\* root or nested, has at least one child, whatever the text: the empty
\* text, {}, (), logical operators or spaces only.
C19_GroupsHaveChildren ==
    (pc = "done" /\ ret.err = NoError)
    => \A g \in GroupsOf(ret.exp) : Len(g.expressions) >= 1

\* C20: every group of a tree that parse returns without an error has the
\* operator && or ||, also when sub-expressions stand side by side with no
\* logical operator between them, as in (a=b)(c=d) and a=b (c=d).  The
\* trees with a group without children are left out here: they are the
\* matter of C19.
C20_GroupsHaveOperator ==
    (/\ pc = "done"
     /\ ret.err = NoError
     /\ \A g \in GroupsOf(ret.exp) : Len(g.expressions) >= 1)
    => \A g \in GroupsOf(ret.exp) : g.operator \in LogicalOperators

----------------------------------------------------------------------------
(* The order of the children                                               *)

\* the lower-case letters of s, in the order they stand in
Letters(s) == SelectSeq(s, LAMBDA c : c \in {"a", "b", "c", "d", "e", "x", "y"})

\* the letters of the operands of the tree e, read from left to right:
\* each group's children in their order, each comparison's left operand
\* before its right one
RECURSIVE OperandLetters(_)
RECURSIVE OperandLettersOf(_, _)
OperandLettersOf(exprs, i) ==
    IF i > Len(exprs) THEN <<>>
    ELSE OperandLetters(exprs[i]) \o OperandLettersOf(exprs, i + 1)

OperandLetters(e) ==
    IF e.kind = "simple" THEN Letters(e.left) \o Letters(e.right)
    ELSE OperandLettersOf(e.expressions, 1)

\* C21: the children of every group that parse returns stand in the order
\* of their sub-expressions in the text, parenthesised or bare: the
\* operands of the tree, read from left to right, are the operands of the
\* text, read from left to right.
C21_ChildrenInTextOrder ==
    (pc = "done" /\ ret.err = NoError)
    => OperandLetters(ret.exp) = Letters(inA)

----------------------------------------------------------------------------
(* isEquivalent and the memory of its argument                             *)

\* a plausible slip: the pool is the argument's own slice, not a copy
otherExpressionsAliased(expressions) == [arr |-> expressions, shared |-> TRUE]

\* otherExpressions := make(...); copy(otherExpressions, complexOther.expressions):
\* the pool's backing array, and whether the argument's slice shares it
otherExpressionsPool(expressions) == [arr |-> expressions, shared |-> FALSE]

\* x.isEquivalent(o) with the writes it makes: ok is the result, other is
\* o as it stands in memory after the call
RECURSIVE isEquivalentInMemory(_, _)

\* findEquivalentPos on the first n slots of the array arr; a nested call
\* leaves its argument, the slot's element, as other says
RECURSIVE findInMemory(_, _, _, _)
findInMemory(exp, arr, n, i) ==
    IF i >= n THEN [idx |-> -1, arr |-> arr]
    ELSE LET e == isEquivalentInMemory(exp, arr[i + 1])
             after == [arr EXCEPT ![i + 1] = e.other]
         IN IF e.ok THEN [idx |-> i, arr |-> after]
            ELSE findInMemory(exp, after, n, i + 1)

\* the range loop over c.expressions: the pool is the first n slots of arr;
\* a found slot is overwritten by the last one and the pool shortened
RECURSIVE matchLoopInMemory(_, _, _, _)
matchLoopInMemory(expressions, k, arr, n) ==
    IF k >= Len(expressions) THEN [ok |-> TRUE, arr |-> arr]
    ELSE LET f == findInMemory(expressions[k + 1], arr, n, 0)
         IN IF f.idx >= 0
            THEN matchLoopInMemory(expressions, k + 1,
                                   [f.arr EXCEPT ![f.idx + 1] = f.arr[n]], n - 1)
            ELSE [ok |-> FALSE, arr |-> f.arr]

\* the writes go to the pool; they reach o when o's slice shares the pool's
\* array (a nested call writes to a pool of its own in the same way)
complexIsEquivalentInMemory(c, o) ==
    IF o.kind # "complex" THEN [ok |-> FALSE, other |-> o]
    ELSE IF o.operator # c.operator THEN [ok |-> FALSE, other |-> o]
    ELSE IF Len(c.expressions) # Len(o.expressions) THEN [ok |-> FALSE, other |-> o]
    ELSE LET pool == otherExpressionsPool(o.expressions)
             r == matchLoopInMemory(c.expressions, 0, pool.arr, Len(pool.arr))
         IN [ok |-> r.ok,
             other |-> IF pool.shared THEN [o EXCEPT !.expressions = r.arr]
                       ELSE o]

isEquivalentInMemory(x, o) ==
    IF x.kind = "simple" THEN [ok |-> simpleIsEquivalent(x, o), other |-> o]
    ELSE complexIsEquivalentInMemory(x, o)

\* comparisons, and groups of a few comparisons, flat and nested
SmallLeafPool == SmallPool \cup {simpleExpression(<<"a">>, coNotEqual, <<"b">>)}

SmallTrees ==
    Comparisons
    \cup {complexExpression(op, xs) : op \in LogicalOperators,
                                      xs \in SeqsUpTo(SmallLeafPool, MaxChildren)}
    \cup NestedGroups

InitSmall ==
    /\ pc = "start"
    /\ frames = <<>>
    /\ inA = EmptyStr
    /\ inB = EmptyStr
    /\ stA \in SmallTrees
    /\ stB \in SmallTrees
    /\ ret = [ok |-> FALSE, err |-> NoError, exp |-> NilExpression]

\* stA.isEquivalent(stB), a first and a second time, on the trees as the
\* call before left them
CallIsEquivalentInMemory ==
    /\ pc \in {"start", "done"}
    /\ pc' = IF pc = "start" THEN "done" ELSE "done2"
    /\ LET r == isEquivalentInMemory(stA, stB)
       IN /\ ret' = [ok |-> r.ok, err |-> NoError, exp |-> NilExpression]
          /\ stB' = r.other
    /\ UNCHANGED <<frames, inA, inB, stA>>

NextMemory == CallIsEquivalentInMemory

SpecMemory == InitSmall /\ [][NextMemory]_vars

\* C22: a call of isEquivalent leaves both trees as they were, the order
\* and the content of the children of the argument at every level, and a
\* second call returns what the first returned.
C22_ReadOnly ==
    [][/\ stA' = stA
       /\ stB' = stB
       /\ pc = "done" => ret'.ok = ret.ok]_vars

\* two calls on nested groups whose children match in another order, so
\* that the pool's slots were overwritten
C22_Witness ==
    /\ pc = "done2"
    /\ ret.ok = TRUE
    /\ stA.kind = "complex"
    /\ Len(stA.expressions) = 2
    /\ stA.expressions[1].kind = "complex"
    /\ stB.expressions[2].kind = "complex"
    /\ stA.expressions # stB.expressions

----------------------------------------------------------------------------
(* NOT EXISTS with trailing content                                        *)

\* the place of the only NOT EXISTS of s
NotExistsPos(s) ==
    CHOOSE i \in 1..(Len(s) - Len(coNotExists) + 1) :
       SubSeq(s, i, i + Len(coNotExists) - 1) = coNotExists

\* a leaf fragment L NOT EXISTS T with no other comparison operator
IsNotExistsFragment(s) ==
    /\ IsLeafFragment(s)
    /\ ComparisonTokens(s) = 1
    /\ OccurrencesOf(s, coNotExists) = 1

TextBeforeNotExists(s) == TrimSpace(SubSeq(s, 1, NotExistsPos(s) - 1))

TextAfterNotExists(s) ==
    TrimSpace(SubSeq(s, NotExistsPos(s) + Len(coNotExists), Len(s)))

\* C23 as stated: L NOT EXISTS T parses to the comparison with operator
\* NOT EXISTS, left L and the empty right operand, as L NOT EXISTS does.
C23_AsStated ==
    (pc = "done" /\ IsNotExistsFragment(cleanS(inA)))
    => (/\ ret.err = NoError
        /\ ret.exp = simpleExpression(TextBeforeNotExists(cleanS(inA)),
                                       coNotExists, EmptyStr))

\* C23: L NOT EXISTS T parses to the comparison with operator NOT EXISTS,
\* left L and right T, the trailing content without its surrounding spaces;
\* the right operand is empty when nothing but spaces follows NOT EXISTS.
C23_TrailingContentIsRight ==
    (pc = "done" /\ IsNotExistsFragment(cleanS(inA)))
    => (/\ ret.err = NoError
        /\ ret.exp = simpleExpression(TextBeforeNotExists(cleanS(inA)),
                                       coNotExists,
                                       TextAfterNotExists(cleanS(inA))))

\* a NOT EXISTS b
C23_Witness ==
    /\ pc = "done"
    /\ inA = NotExistsThenB
    /\ ret.err = NoError
    /\ ret.exp = simpleExpression(<<"a">>, coNotExists, <<"b">>)

----------------------------------------------------------------------------
(* isEquivalent as an equivalence relation                                 *)

SpecTransitive == InitSmall /\ [][NextEquiv]_vars

\* C24: isEquivalent is reflexive and transitive: every tree is equivalent
\* to itself, and when a is equivalent to b, a is equivalent to every tree
\* c that b is equivalent to.
C24_Transitive ==
    pc = "done" =>
       /\ isEquivalent(stA, stA)
       /\ ret.ok = TRUE =>
             \A c \in SmallTrees : isEquivalent(stB, c) => isEquivalent(stA, c)

\* three different nested groups, equivalent to one another
C24_Witness ==
    /\ pc = "done"
    /\ ret.ok = TRUE
    /\ stA # stB
    /\ stA.kind = "complex"
    /\ Len(stA.expressions) = 2
    /\ stA.expressions[2].kind = "complex"
    /\ \E c \in SmallTrees :
          c # stA /\ c # stB /\ isEquivalent(stB, c) /\ isEquivalent(stA, c)

----------------------------------------------------------------------------
(* The scan of safeParse, one loop iteration at a time                     *)
(*                                                                         *)
(* frames is the call stack of safeParse: one record per call in progress, *)
(* the innermost last, with the call's text, its depth and its loop state. *)

ScanInputs ==
    SubExpressionTexts \cup WrappedTexts \cup {FourLayersText}
    \cup TokenTexts(DefectTokens, MaxPairTokens)
    \cup UnbalancedTexts \cup DoubledOperatorTexts \cup EmbeddedDefectTexts
    \cup EmptyTexts \cup JuxtaposedTexts \cup {TooDeepText}

InitScan ==
    /\ pc = "start"
    /\ frames = <<>>
    /\ inA \in ScanInputs
    /\ inB = EmptyStr
    /\ stA = NilExpression
    /\ stB = NilExpression
    /\ ret = [ok |-> FALSE, err |-> NoError, exp |-> NilExpression]

\* the locals of a call of safeParse on entry
Frame(s, depth) ==
    [s |-> s, depth |-> depth,
     st |-> [pointer |-> 0, buf |-> EmptyStr, logicalOp |-> EmptyStr,
             expressions |-> <<>>, err |-> NoError]]

Top == frames[Len(frames)]

\* where control is in safeParse: at its first line, at the loop condition,
\* inside an iteration, behind a call of safeParse, at a return
ScanLocations == {"entry", "loop", "body", "resume", "return"}

\* the iteration reads ( and the matching ) exists
AtSubExpression(f) ==
    /\ f.s[f.st.pointer + 1] = "("
    /\ matchingParenthesisPos(SubSeq(f.s, f.st.pointer + 1, Len(f.s))) >= 0

\* (expression, error) that a call returns: the error met, or what the code
\* after the loop builds
Returned(f) ==
    IF f.st.err # NoError THEN Fail(f.st.err) ELSE safeParseFinish(f.st)

\* a plausible slip: the offset of the ( in the text is forgotten
pointerAfterNoOffset(pos, i) == pos + 1

\* pointer = pos + i + 1
pointerAfter(pos, i) == pos + i + 1

\* parse(inA) up to the call of safeParse
ParseEnter ==
    /\ pc = "start"
    /\ IF Count(inA, "(") # Count(inA, ")")
       THEN /\ pc' = "done"
            /\ ret' = [ok |-> FALSE, err |-> ErrBrokenParenthesis,
                       exp |-> NilExpression]
            /\ frames' = <<>>
       ELSE /\ pc' = "entry"
            /\ ret' = ret
            /\ frames' = <<Frame(cleanS(inA), 0)>>
    /\ UNCHANGED <<inA, inB, stA, stB>>

\* if depth > maxDepth { return nil, errors.New(...) }
SafeParseEntry ==
    /\ pc = "entry"
    /\ IF Top.depth > maxDepth
       THEN /\ pc' = "return"
            /\ frames' = [frames EXCEPT ![Len(frames)].st.err = ErrMaxDepth]
       ELSE /\ pc' = "loop"
            /\ frames' = frames
    /\ UNCHANGED <<inA, inB, stA, stB, ret>>

\* for len(s) > pointer
SafeParseLoopTest ==
    /\ pc = "loop"
    /\ pc' = IF Len(Top.s) > Top.st.pointer THEN "body" ELSE "return"
    /\ UNCHANGED <<frames, inA, inB, stA, stB, ret>>

\* one iteration of the loop on a character that opens no sub-expression
SafeParseIterate ==
    /\ pc = "body"
    /\ ~AtSubExpression(Top)
    /\ frames' = [frames EXCEPT
                    ![Len(frames)].st = safeParseStep(Top.s, Top.depth, @)]
    /\ pc' = IF frames'[Len(frames)].st.err # NoError THEN "return" ELSE "loop"
    /\ UNCHANGED <<inA, inB, stA, stB, ret>>

\* exp, err := safeParse(subS, depth+1): the call
SafeParseCall ==
    /\ pc = "body"
    /\ AtSubExpression(Top)
    /\ LET i == Top.st.pointer
           pos == matchingParenthesisPos(SubSeq(Top.s, i + 1, Len(Top.s)))
       IN frames' = Append(frames,
                           Frame(SubSeq(Top.s, i + 2, pos + i), Top.depth + 1))
    /\ pc' = "entry"
    /\ UNCHANGED <<inA, inB, stA, stB, ret>>

\* the innermost call returns: to the iteration that called it, or to parse
SafeParseReturn ==
    /\ pc = "return"
    /\ LET r == Returned(Top)
       IN /\ ret' = [ok |-> FALSE, err |-> r.err, exp |-> r.exp]
          /\ stA' = IF Len(frames) = 1 THEN r.exp ELSE stA
    /\ pc' = IF Len(frames) = 1 THEN "done" ELSE "resume"
    /\ frames' = SubSeq(frames, 1, Len(frames) - 1)
    /\ UNCHANGED <<inA, inB, stB>>

\* exp, err := safeParse(subS, depth+1): the iteration after the call
SafeParseResume ==
    /\ pc = "resume"
    /\ LET i == Top.st.pointer
           pos == matchingParenthesisPos(SubSeq(Top.s, i + 1, Len(Top.s)))
       IN IF ret.err # NoError
          THEN /\ pc' = "return"
               /\ frames' = [frames EXCEPT ![Len(frames)].st.err = ret.err]
          ELSE /\ pc' = "loop"
               /\ frames' = [frames EXCEPT
                    ![Len(frames)].st.expressions = Append(@, ret.exp),
                    ![Len(frames)].st.pointer = pointerAfter(pos, i)]
    /\ UNCHANGED <<inA, inB, stA, stB, ret>>

NextScan ==
    \/ ParseEnter
    \/ SafeParseEntry
    \/ SafeParseLoopTest
    \/ SafeParseIterate
    \/ SafeParseCall
    \/ SafeParseReturn
    \/ SafeParseResume

SpecScan == InitScan /\ [][NextScan]_vars

\* control moves to another place of the program
ControlMovesOn ==
    /\ pc \in {"start"} \cup ScanLocations
    /\ pc' \in (ScanLocations \cup {"done"}) \ {pc}

\* parse runs on one goroutine and waits for nothing: until it has returned,
\* control moves on.  Every step of NextScan moves control, and a step of
\* NextScan is possible wherever control is (ScanNeverStuck).
FairSpecScan == SpecScan /\ WF_pc(ControlMovesOn)

\* wherever control is in safeParse, a call is in progress, so that one of
\* the steps of NextScan can be taken
ScanNeverStuck == pc \in ScanLocations => frames # <<>>

\* the stepped scan computes what parse computes
ScanAgreesWithParse ==
    pc = "done" =>
       LET r == parse(inA) IN ret.err = r.err /\ ret.exp = r.exp /\ stA = r.exp

\* what an iteration of the loop does to the scan position, and what a call
\* does to the depth
ScanAdvances ==
    LET n == Len(frames)
    IN /\ (pc = "body" /\ pc' = "loop") =>
             /\ Top.s[Top.st.pointer + 1] # "("
             /\ frames'[n].st.pointer = Top.st.pointer + 1
       /\ (pc = "body" /\ pc' = "entry") =>
             /\ SubSeq(frames', 1, n) = frames
             /\ Top.s[Top.st.pointer + 1] = "("
             /\ frames'[n + 1].depth = Top.depth + 1
       /\ (pc = "resume" /\ pc' = "loop") =>
             LET i == Top.st.pointer
                 pos == matchingParenthesisPos(SubSeq(Top.s, i + 1, Len(Top.s)))
             IN /\ pos >= 1
                /\ Top.s[pos + i + 1] = ")"
                /\ frames'[n].st.pointer = pos + i + 1
                /\ frames'[n].st.pointer > i + 1
       /\ \A k \in 1..Len(frames') :
             /\ frames'[k].st.pointer <= Len(frames'[k].s)
             /\ k <= n => frames'[k].st.pointer >= frames[k].st.pointer
       /\ pc' # pc

\* C25: parse terminates on every text with either a tree or an error: each
\* iteration of the scan loop of safeParse moves the scan position forward,
\* by one for an ordinary character and to just past the matching ) after a
\* sub-expression between parentheses, the matching ) being at least one
\* past the (, and no call of safeParse is deeper than maxDepth + 1.
C25_Terminates ==
    /\ [][ScanAdvances]_vars
    /\ [](\A k \in 1..Len(frames) :
             frames[k].depth = k - 1 /\ frames[k].depth <= maxDepth + 1)
    /\ []ScanNeverStuck
    /\ [](pc = "done" => (ret.err = NoError) = (ret.exp # NilExpression))
    /\ <>(pc = "done")

\* the scan read a sub-expression between parentheses in the middle of the
\* text, resumed past its ) and parse returned a tree
C25_Witness ==
    /\ pc = "done"
    /\ ret.err = NoError
    /\ ret.exp.kind = "complex"
    /\ \E i \in 2..Len(inA), j \in 2..(Len(inA) - 1) :
          i < j /\ inA[i] = "(" /\ inA[j] = ")" /\ inA[1] # "("

====
